---- MODULE Spec2Model ----
(***************************************************************************)
(* Model of lab_6_pipeline/pipeline.py: CorpusManager (dataset validation   *)
(* and scanning), the ConlluToken / ConlluSentence data model and           *)
(* MorphologicalAnalysisPipeline.                                           *)
(*                                                                          *)
(* Five specifications share the variables:                                 *)
(*   Spec         CorpusManager construction followed by pipeline.run()     *)
(*   SpecText     _process, get_cleaned and get_cleaned_sentence over texts *)
(*   SpecConllu   MorphologicalTokenDTO, set_morphological_parameters and   *)
(*                get_conllu_text                                           *)
(*   SpecMain     the CorpusManager of main.py                              *)
(*   SpecAdvanced the tag converters and the advanced pipeline              *)
(***************************************************************************)
EXTENDS Integers, Sequences, FiniteSets, TLC

VARIABLES
    os_sep,        \* separator pathlib uses in str(Path): "/" (POSIX) or "\\" (Windows)
    path_kind,     \* what path_to_raw_txt_data points at: "missing", "file", "dir"
    raw_files,     \* directory content: *_raw.txt name -> "absent" | "empty" | "text"
    meta_ids,      \* ids i for which i_meta.json is in the directory
    pc,            \* position of the caller: __init__, run()
    error,         \* exception that left the current call, "none" when none
    storage,       \* CorpusManager._storage: insertion-ordered dict, as a sequence of articles
    scan_left,     \* files the glob iterator of _scan_dataset has not yielded yet
    run_i,         \* index in storage of the article run() is at
    sentences,     \* local `sentences` of run(): result of _process for the current article
    events,        \* log of the steps run() has completed, in order
    text,          \* input of _process: the sentences split_by_sentence returns
    conllu_sentences, \* the list _process returned
    dto,           \* the MorphologicalTokenDTO object the caller holds
    dto_args,      \* the lemma, pos and tags the caller gave that DTO (constructor, attributes)
    token,         \* the ConlluToken a caller holds
    token_args,    \* the values given to the DTO last stored in token
    out            \* the value the last getter returned

vars == << os_sep, path_kind, raw_files, meta_ids, pc, error, storage, scan_left,
           run_i, sentences, events, text, conllu_sentences, dto, dto_args,
           token, token_args, out >>

corpus_vars == << os_sep, path_kind, raw_files, meta_ids, storage, scan_left,
                  run_i, sentences, events >>

token_vars == << dto, dto_args, token, token_args >>

(***************************************************************************)
(* Bounds of the model.                                                     *)
(***************************************************************************)
\* largest id that appears in a file name
MaxId == 3
\* longest sentence, in characters, given to _process in SpecText
MaxSentenceLen == 4
\* longest sentence, in characters, of a text of two sentences in SpecText
MaxShortLen == 2

(***************************************************************************)
(* Characters and strings.  A text is a sequence of characters; a character *)
(* is named by a string.  "Idot" is U+0130 (LATIN CAPITAL LETTER I WITH DOT *)
(* ABOVE), "dot" is U+0307 (COMBINING DOT ABOVE).                           *)
(***************************************************************************)
Alphabet == {"A", "a", "i", ",", "_", " ", "Idot", "dot"}

\* str.isspace / regex \s
IsSpace(c) == c = " "

\* regex \w on str patterns: alphanumerics and the underscore
IsWord(c) == c \in {"A", "a", "i", "_", "Idot"}

\* str.lower() of one character; U+0130 lowers to the two characters i, U+0307
LowerChar(c) ==
    CASE c = "A" -> <<"a">>
      [] c = "Idot" -> <<"i", "dot">>
      [] OTHER -> <<c>>

RECURSIVE Lower(_)
\* str.lower()
Lower(s) == IF s = <<>> THEN <<>> ELSE LowerChar(Head(s)) \o Lower(Tail(s))

\* re.sub(r'[^\w\s]', '', s)
SubNonWord(s) == SelectSeq(s, LAMBDA c : IsWord(c) \/ IsSpace(c))

RECURSIVE SplitFrom(_, _)
\* str.split() with no argument: the maximal runs of non-whitespace, cur being the
\* run read so far
SplitFrom(s, cur) ==
    IF s = <<>> THEN (IF cur = <<>> THEN <<>> ELSE <<cur>>)
    ELSE IF IsSpace(Head(s))
         THEN (IF cur = <<>> THEN <<>> ELSE <<cur>>) \o SplitFrom(Tail(s), <<>>)
         ELSE SplitFrom(Tail(s), Append(cur, Head(s)))

Split(s) == SplitFrom(s, <<>>)

RECURSIVE JoinSpace(_)
\* ' '.join(parts)
JoinSpace(parts) ==
    IF parts = <<>> THEN <<>>
    ELSE IF Len(parts) = 1 THEN Head(parts)
    ELSE Head(parts) \o <<" ">> \o JoinSpace(Tail(parts))

(***************************************************************************)
(* The file system the CorpusManager is constructed on.                     *)
(***************************************************************************)
\* names matching *_raw.txt: the id, written with or without a leading zero
RawNames == [id : 1..MaxId, pad : BOOLEAN]

FileName(f) == (IF f.pad THEN "0" ELSE "") \o ToString(f.id) \o "_raw.txt"

\* str(self.path_to_raw_txt_data)
PathStr == "articles"

\* str(x) of a path the glob yields: pathlib joins with the platform's separator
StrOfPath(f) == PathStr \o os_sep \o FileName(f)

\* the text of a non-empty raw file, as split_by_sentence returns it
RawText(id) == << <<"A", ",", " ", "a">>, <<"i">> >>

(***************************************************************************)
(* ConlluToken, ConlluSentence and _process.                                *)
(***************************************************************************)
\* MorphologicalTokenDTO.__init__: the three attributes are set to "" whatever the
\* arguments are
MorphologicalTokenDTO(lemma, pos, tags) == [lemma |-> "", pos |-> "", tags |-> ""]

\* ConlluToken.__init__: the text, a fresh default DTO, position 0
ConlluToken(t) ==
    [text |-> t, parameters |-> MorphologicalTokenDTO("", "", ""), position |-> 0]

\* the body of the loop over sentence.split() in _process
TokensOf(sentence) ==
    LET units == Split(sentence)
    IN  [k \in 1..Len(units) |-> ConlluToken(units[k])]

\* MorphologicalAnalysisPipeline._process: enumerate() numbers the sentences from 0
Process(txt) ==
    [i \in 1..Len(txt) |->
        [position |-> i - 1, text |-> txt[i], tokens |-> TokensOf(txt[i])]]

\* ConlluToken.get_cleaned: re.sub(r'[^\w\s]', '', text), then .lower()
GetCleaned(tok) == Lower(SubNonWord(tok.text))

RECURSIVE ConcatCleaned(_)
\* the loop of get_cleaned_sentence: sentence += ' ' + word.get_cleaned()
ConcatCleaned(tokens) ==
    IF tokens = <<>> THEN <<>>
    ELSE <<" ">> \o GetCleaned(Head(tokens)) \o ConcatCleaned(Tail(tokens))

\* ConlluSentence.get_cleaned_sentence: ' '.join(sentence.split()).lower()
GetCleanedSentence(sent) == Lower(JoinSpace(Split(ConcatCleaned(sent.tokens))))

\* ConlluToken.set_morphological_parameters: the three attributes are copied
SetMorphologicalParameters(tok, parameters) ==
    [tok EXCEPT !.parameters =
        [lemma |-> parameters.lemma, pos |-> parameters.pos, tags |-> parameters.tags]]

\* ConlluToken.get_conllu_text: the tab-separated fields of the line, in order; the
\* argument is not read
GetConlluText(tok, include_morphological_tags) ==
    << ToString(tok.position), tok.text, tok.parameters.lemma, tok.parameters.pos,
       "_", "_", "0", "root", "_", "_" >>

(***************************************************************************)
(* CorpusManager.                                                           *)
(***************************************************************************)
\* Path.glob('*_raw.txt'): nothing unless the path is a directory
GlobRaw == IF path_kind = "dir" THEN {f \in RawNames : raw_files[f] # "absent"} ELSE {}

\* raw_files_list = [str(x) for x in raw_files]
RawFilesList == {StrOfPath(f) : f \in GlobRaw}

\* filename_raw = path + '\\' + str(i+1) + '_raw.txt', for i+1 = n
FilenameRaw(n) == PathStr \o "\\" \o ToString(n) \o "_raw.txt"

\* the two checks in the other order: is_dir() is tested before exists()
PathCheckIsDirFirst ==
    IF path_kind # "dir" THEN "NotADirectoryError"
    ELSE IF path_kind = "missing" THEN "FileNotFoundError"
    ELSE "none"

\* the first two checks of _validate_dataset: exists(), then is_dir()
PathCheck ==
    IF path_kind = "missing" THEN "FileNotFoundError"
    ELSE IF path_kind # "dir" THEN "NotADirectoryError"
    ELSE "none"

\* CorpusManager._validate_dataset: the exception it raises, "none" when it returns
ValidateDataset ==
    LET max_number == Cardinality(GlobRaw)
    IN  IF PathCheck # "none" THEN PathCheck
        ELSE IF max_number = 0 THEN "EmptyDirectoryError"
        ELSE IF \E f \in GlobRaw : raw_files[f] = "empty" THEN "InconsistentDatasetError"
        ELSE IF \E n \in 1..max_number : FilenameRaw(n) \notin RawFilesList
             THEN "InconsistentDatasetError"
        ELSE "none"

\* from_raw(file): the article of a raw file, its id read from the file name
FromRaw(f) ==
    [article_id |-> f.id, text |-> RawText(f.id), conllu_sentences |-> <<>>, cleaned |-> 0]

\* dict.update({article.article_id: article}): a present key keeps its place
DictUpdate(d, a) ==
    IF \E k \in 1..Len(d) : d[k].article_id = a.article_id
    THEN [k \in 1..Len(d) |-> IF d[k].article_id = a.article_id THEN a ELSE d[k]]
    ELSE Append(d, a)

\* a constructor that swallows the exception of _validate_dataset and scans anyway
AfterValidateSwallowed(err) == "scan"

\* where __init__ goes after _validate_dataset: an exception leaves the constructor
AfterValidate(err) == IF err = "none" THEN "scan" ELSE "raised"

\* CorpusManager.__init__, lines 39-41: the empty storage, then _validate_dataset
InitValidate ==
    /\ pc = "new"
    /\ storage' = <<>>
    /\ error' = ValidateDataset
    /\ pc' = AfterValidate(ValidateDataset)
    /\ scan_left' = GlobRaw
    /\ UNCHANGED << os_sep, path_kind, raw_files, meta_ids, run_i, sentences, events >>
    /\ UNCHANGED << text, conllu_sentences, out >>
    /\ UNCHANGED token_vars

\* one iteration of the loop of _scan_dataset; the glob yields in any order
ScanFile ==
    /\ pc = "scan"
    /\ \E f \in scan_left :
          /\ storage' = DictUpdate(storage, FromRaw(f))
          /\ scan_left' = scan_left \ {f}
    /\ UNCHANGED << os_sep, path_kind, raw_files, meta_ids, pc, error, run_i, sentences, events >>
    /\ UNCHANGED << text, conllu_sentences, out >>
    /\ UNCHANGED token_vars

\* _scan_dataset and __init__ return: the caller holds the CorpusManager
ScanDone ==
    /\ pc = "scan"
    /\ scan_left = {}
    /\ pc' = "constructed"
    /\ UNCHANGED << os_sep, path_kind, raw_files, meta_ids, error, storage, scan_left >>
    /\ UNCHANGED << run_i, sentences, events, text, conllu_sentences, out >>
    /\ UNCHANGED token_vars

(***************************************************************************)
(* MorphologicalAnalysisPipeline.run().                                     *)
(***************************************************************************)
\* main(): run() is called on the constructed corpus; the loop starts at the first value
RunStart ==
    /\ pc = "constructed"
    /\ pc' = "run"
    /\ run_i' = 1
    /\ UNCHANGED << os_sep, path_kind, raw_files, meta_ids, error, storage, scan_left >>
    /\ UNCHANGED << sentences, events, text, conllu_sentences, out >>
    /\ UNCHANGED token_vars

\* sentences = self._process(article.text)
RunProcess ==
    /\ pc = "run"
    /\ run_i <= Len(storage)
    /\ sentences' = Process(storage[run_i].text)
    /\ events' = Append(events, << storage[run_i].article_id, "process" >>)
    /\ pc' = "run_set"
    /\ UNCHANGED << os_sep, path_kind, raw_files, meta_ids, error, storage, scan_left, run_i >>
    /\ UNCHANGED << text, conllu_sentences, out >>
    /\ UNCHANGED token_vars

\* split_by_sentence raises inside _process: run() has no try, the exception leaves it
RunProcessRaise ==
    /\ pc = "run"
    /\ run_i <= Len(storage)
    /\ events' = Append(events, << storage[run_i].article_id, "raise" >>)
    /\ error' = "Exception"
    /\ pc' = "run_raised"
    /\ UNCHANGED << os_sep, path_kind, raw_files, meta_ids, storage, scan_left, run_i, sentences >>
    /\ UNCHANGED << text, conllu_sentences, out >>
    /\ UNCHANGED token_vars

\* article.set_conllu_sentences(sentences)
RunSetSentences ==
    /\ pc = "run_set"
    /\ storage' = [storage EXCEPT ![run_i].conllu_sentences = sentences]
    /\ events' = Append(events, << storage[run_i].article_id, "set" >>)
    /\ pc' = "run_write"
    /\ UNCHANGED << os_sep, path_kind, raw_files, meta_ids, error, scan_left, run_i, sentences >>
    /\ UNCHANGED << text, conllu_sentences, out >>
    /\ UNCHANGED token_vars

\* to_cleaned(article) placed after the loop instead of in it: only the last article
\* is written
RunToCleanedAfterLoop ==
    /\ pc = "run_write"
    /\ IF run_i < Len(storage)
       THEN UNCHANGED << storage, events >>
       ELSE /\ storage' = [storage EXCEPT ![run_i].cleaned = @ + 1]
            /\ events' = Append(events, << storage[run_i].article_id, "write" >>)
    /\ run_i' = run_i + 1
    /\ pc' = "run"
    /\ UNCHANGED << os_sep, path_kind, raw_files, meta_ids, error, scan_left, sentences >>
    /\ UNCHANGED << text, conllu_sentences, out >>
    /\ UNCHANGED token_vars

\* to_cleaned(article), then the loop takes the next article
RunToCleaned ==
    /\ pc = "run_write"
    /\ storage' = [storage EXCEPT ![run_i].cleaned = @ + 1]
    /\ events' = Append(events, << storage[run_i].article_id, "write" >>)
    /\ run_i' = run_i + 1
    /\ pc' = "run"
    /\ UNCHANGED << os_sep, path_kind, raw_files, meta_ids, error, scan_left, sentences >>
    /\ UNCHANGED << text, conllu_sentences, out >>
    /\ UNCHANGED token_vars

\* the loop of run() is exhausted
RunDone ==
    /\ pc = "run"
    /\ run_i > Len(storage)
    /\ pc' = "run_done"
    /\ UNCHANGED << os_sep, path_kind, raw_files, meta_ids, error, storage, scan_left >>
    /\ UNCHANGED << run_i, sentences, events, text, conllu_sentences, out >>
    /\ UNCHANGED token_vars

\* the values the variables of the other specifications rest at
NoToken == [text |-> <<>>, parameters |-> [lemma |-> "", pos |-> "", tags |-> ""], position |-> 0]

NoArgs == [lemma |-> "", pos |-> "", tags |-> ""]

\* no getter has been called yet
NoOut ==
    [op |-> "none", sentence |-> 0, token |-> 0, flag |-> FALSE, arg |-> <<>>,
     given |-> NoArgs, value |-> <<>>]

TokenIdle ==
    /\ dto = NoArgs
    /\ dto_args = NoArgs
    /\ token = NoToken
    /\ token_args = NoArgs

CorpusIdle ==
    /\ os_sep = "/"
    /\ path_kind = "missing"
    /\ raw_files = [f \in RawNames |-> "absent"]
    /\ meta_ids = {}
    /\ storage = <<>>
    /\ scan_left = {}
    /\ run_i = 0
    /\ sentences = <<>>
    /\ events = <<>>

\* main(): any platform, any path, any directory content; CorpusManager(path) is about
\* to be called
Init ==
    /\ os_sep \in {"/", "\\"}
    /\ path_kind \in {"missing", "file", "dir"}
    /\ raw_files \in [RawNames -> {"absent", "empty", "text"}]
    /\ meta_ids \in SUBSET (1..MaxId)
    /\ (path_kind # "dir" => raw_files = [f \in RawNames |-> "absent"] /\ meta_ids = {})
    /\ pc = "new"
    /\ error = "none"
    /\ storage = <<>>
    /\ scan_left = {}
    /\ run_i = 0
    /\ sentences = <<>>
    /\ events = <<>>
    /\ text = <<>>
    /\ conllu_sentences = <<>>
    /\ out = NoOut
    /\ TokenIdle

Next ==
    \/ InitValidate
    \/ ScanFile
    \/ ScanDone
    \/ RunStart
    \/ RunProcess
    \/ RunProcessRaise
    \/ RunSetSentences
    \/ RunToCleaned
    \/ RunDone

Spec == Init /\ [][Next]_vars

(***************************************************************************)
(* Claims about CorpusManager and run(), checked under Spec.                *)
(***************************************************************************)
\* the ids read from the names of the *_raw.txt files
RawIds == {f.id : f \in GlobRaw}

\* the directory holds exactly n non-empty files 1_raw.txt .. n_raw.txt, with their
\* metadata files
ValidDataset(n) ==
    /\ path_kind = "dir"
    /\ GlobRaw = {f \in RawNames : f.id \in 1..n /\ ~f.pad}
    /\ \A f \in GlobRaw : raw_files[f] = "text"
    /\ meta_ids = 1..n

\* C1: on a directory of exactly N >= 1 non-empty files 1_raw.txt .. N_raw.txt the
\* constructor does not raise, and get_articles() then has exactly the keys 1..N
C1_ValidDatasetIsScanned ==
    \A n \in 1..MaxId :
        ValidDataset(n) =>
            /\ pc # "raised"
            /\ pc = "constructed" =>
                  /\ Len(storage) = n
                  /\ {storage[k].article_id : k \in 1..Len(storage)} = 1..n

\* C2: on a directory of N >= 1 non-empty *_raw.txt files, _validate_dataset raises
\* InconsistentDatasetError if and only if the ids of the names are not exactly 1..N
C2_InconsistentIffIdsNotContiguous ==
    (/\ pc # "new"
     /\ path_kind = "dir"
     /\ GlobRaw # {}
     /\ \A f \in GlobRaw : raw_files[f] = "text")
    => (ValidateDataset = "InconsistentDatasetError"
            <=> RawIds # 1..Cardinality(GlobRaw))

\* C3: a missing path raises the path-not-found error (FileNotFoundError in the
\* code), a path that is not a directory NotADirectoryError, a directory without
\* *_raw.txt files EmptyDirectoryError, and the constructor never succeeds on them
C3_FirstFailingCheck ==
    pc # "new" =>
        /\ path_kind = "missing" => error = "FileNotFoundError" /\ pc = "raised"
        /\ path_kind = "file" => error = "NotADirectoryError" /\ pc = "raised"
        /\ (path_kind = "dir" /\ GlobRaw = {}) =>
              error = "EmptyDirectoryError" /\ pc = "raised"

C3_Witness ==
    /\ pc = "raised"
    /\ \/ path_kind = "file" /\ error = "NotADirectoryError"
       \/ path_kind = "missing" /\ error = "FileNotFoundError"

\* C4: nothing is read into the storage before _validate_dataset has returned
\* without raising, and when it raises the storage stays empty and no
\* CorpusManager is returned
C4_ValidationBarrier ==
    /\ pc = "new" => storage = <<>>
    /\ storage # <<>> => ValidateDataset = "none"
    /\ pc \in {"scan", "constructed", "run", "run_set", "run_write", "run_done", "run_raised"}
          => ValidateDataset = "none"
    /\ ValidateDataset # "none" /\ pc # "new" =>
          pc = "raised" /\ storage = <<>> /\ error = ValidateDataset
    /\ pc = "constructed" =>
          {storage[k].article_id : k \in 1..Len(storage)} = RawIds

C4_Witness ==
    /\ pc = "scan"
    /\ Len(storage) = 2
    /\ scan_left # {}

\* the articles run() has attached sentences to / written the cleaned text of
Attached == {events[k][1] : k \in {j \in 1..Len(events) : events[j][2] = "set"}}

Written == {events[k][1] : k \in {j \in 1..Len(events) : events[j][2] = "write"}}

Raised == {events[k][1] : k \in {j \in 1..Len(events) : events[j][2] = "raise"}}

\* C5: when processing one article raises, run() still processes every other article:
\* once run() is over each of them has its sentences attached and its cleaned text
\* written
C5_FailureDoesNotAbortBatch ==
    pc \in {"run_done", "run_raised"} =>
        \A k \in 1..Len(storage) :
            storage[k].article_id \notin Raised =>
                /\ storage[k].article_id \in Attached
                /\ storage[k].article_id \in Written
                /\ storage[k].cleaned = 1

(***************************************************************************)
(* SpecText: _process on a text, then the cleaning getters on its result.   *)
(***************************************************************************)
\* the strings of at most n characters
StringsUpTo(n) == UNION {[1..k -> Alphabet] : k \in 0..n}

\* a caller holds the sentences of a text and is about to call _process
InitText ==
    /\ text \in {<<s>> : s \in StringsUpTo(MaxSentenceLen)}
                \cup {<<s, t>> : s \in StringsUpTo(MaxShortLen), t \in StringsUpTo(MaxShortLen)}
    /\ pc = "text"
    /\ error = "none"
    /\ conllu_sentences = <<>>
    /\ out = NoOut
    /\ CorpusIdle
    /\ TokenIdle

\* conllu_sentences = pipeline._process(text)
CallProcess ==
    /\ pc = "text"
    /\ conllu_sentences' = Process(text)
    /\ pc' = "processed"
    /\ UNCHANGED << error, text, out >>
    /\ UNCHANGED corpus_vars
    /\ UNCHANGED token_vars

\* token.get_cleaned() on a token of the result; the method assigns nothing
CallGetCleaned ==
    /\ pc = "processed"
    /\ \E i \in 1..Len(conllu_sentences) :
          \E k \in 1..Len(conllu_sentences[i].tokens) :
              out' = [op |-> "get_cleaned", sentence |-> i, token |-> k, flag |-> FALSE,
                      arg |-> conllu_sentences[i].tokens[k].text, given |-> NoArgs,
                      value |-> GetCleaned(conllu_sentences[i].tokens[k])]
    /\ UNCHANGED << pc, error, text, conllu_sentences >>
    /\ UNCHANGED corpus_vars
    /\ UNCHANGED token_vars

\* ConlluToken(cleaned).get_cleaned(), cleaned being what get_cleaned() returned
CallGetCleanedAgain ==
    /\ pc = "processed"
    /\ out.op = "get_cleaned"
    /\ out' = [out EXCEPT !.op = "get_cleaned_again",
                          !.arg = out.value,
                          !.value = GetCleaned(ConlluToken(out.value))]
    /\ UNCHANGED << pc, error, text, conllu_sentences >>
    /\ UNCHANGED corpus_vars
    /\ UNCHANGED token_vars

\* sentence.get_cleaned_sentence() on a sentence of the result
CallGetCleanedSentence ==
    /\ pc = "processed"
    /\ \E i \in 1..Len(conllu_sentences) :
          out' = [op |-> "get_cleaned_sentence", sentence |-> i, token |-> 0, flag |-> FALSE,
                  arg |-> conllu_sentences[i].text, given |-> NoArgs,
                  value |-> GetCleanedSentence(conllu_sentences[i])]
    /\ UNCHANGED << pc, error, text, conllu_sentences >>
    /\ UNCHANGED corpus_vars
    /\ UNCHANGED token_vars

NextText ==
    \/ CallProcess
    \/ CallGetCleaned
    \/ CallGetCleanedAgain
    \/ CallGetCleanedSentence

SpecText == InitText /\ [][NextText]_vars

(***************************************************************************)
(* SpecConllu: a token, the DTO a caller builds for it, and its CONLL-U     *)
(* line.                                                                    *)
(***************************************************************************)
TokenTexts == {"koshka", "Dom,"}

Lemmas == {"", "koshka"}

PosTags == {"", "NOUN"}

Feats == {"", "Case=Nom"}

\* a caller holds ConlluToken(t) and MorphologicalTokenDTO()
InitConllu ==
    /\ token \in {ConlluToken(t) : t \in TokenTexts}
    /\ dto = MorphologicalTokenDTO("", "", "")
    /\ dto_args = NoArgs
    /\ token_args = NoArgs
    /\ pc = "token"
    /\ error = "none"
    /\ text = <<>>
    /\ conllu_sentences = <<>>
    /\ out = NoOut
    /\ CorpusIdle

\* dto = MorphologicalTokenDTO(lemma, pos, tags)
NewDTO ==
    /\ pc = "token"
    /\ \E l \in Lemmas, p \in PosTags, g \in Feats :
          /\ dto' = MorphologicalTokenDTO(l, p, g)
          /\ dto_args' = [lemma |-> l, pos |-> p, tags |-> g]
    /\ UNCHANGED << pc, error, text, conllu_sentences, out, token, token_args >>
    /\ UNCHANGED corpus_vars

\* dto.lemma = l, dto.pos = p or dto.tags = g: the attributes are public
AssignDTOAttribute ==
    /\ pc = "token"
    /\ \/ \E l \in Lemmas : dto' = [dto EXCEPT !.lemma = l] /\ dto_args' = [dto_args EXCEPT !.lemma = l]
       \/ \E p \in PosTags : dto' = [dto EXCEPT !.pos = p] /\ dto_args' = [dto_args EXCEPT !.pos = p]
       \/ \E g \in Feats : dto' = [dto EXCEPT !.tags = g] /\ dto_args' = [dto_args EXCEPT !.tags = g]
    /\ UNCHANGED << pc, error, text, conllu_sentences, out, token, token_args >>
    /\ UNCHANGED corpus_vars

\* token.set_morphological_parameters(dto)
CallSetMorphologicalParameters ==
    /\ pc = "token"
    /\ token' = SetMorphologicalParameters(token, dto)
    /\ token_args' = dto_args
    /\ UNCHANGED << pc, error, text, conllu_sentences, out, dto, dto_args >>
    /\ UNCHANGED corpus_vars

\* token.get_conllu_text(include_morphological_tags); out keeps the token as it was
\* at the call and the values its parameters were given
CallGetConlluText ==
    /\ pc = "token"
    /\ \E include \in BOOLEAN :
          out' = [op |-> "get_conllu_text", sentence |-> 0, token |-> 0, flag |-> include,
                  arg |-> token, given |-> token_args,
                  value |-> GetConlluText(token, include)]
    /\ UNCHANGED << pc, error, text, conllu_sentences >>
    /\ UNCHANGED token_vars
    /\ UNCHANGED corpus_vars

NextConllu ==
    \/ NewDTO
    \/ AssignDTOAttribute
    \/ CallSetMorphologicalParameters
    \/ CallGetConlluText

SpecConllu == InitConllu /\ [][NextConllu]_vars

(***************************************************************************)
(* Claims about _process and the cleaning getters, checked under SpecText.  *)
(***************************************************************************)
\* C6: in every sentence _process returns, the k-th token has position k, so the
\* positions are exactly 1..len(tokens) in reading order
C6_TokenPositions ==
    pc = "processed" =>
        \A i \in 1..Len(conllu_sentences) :
            \A k \in 1..Len(conllu_sentences[i].tokens) :
                /\ conllu_sentences[i].tokens[k].text = Split(text[i])[k]
                /\ conllu_sentences[i].tokens[k].position = k

\* the punctuation characters of the alphabet
IsPunctuation(c) == c \in {",", "_"}

\* the string with its punctuation characters removed
RemovePunctuation(s) == SelectSeq(s, LAMBDA c : ~IsPunctuation(c))

\* the surface forms lowercased with the punctuation removed, in token order
CleanedForms(tokens) == [k \in 1..Len(tokens) |-> Lower(RemovePunctuation(tokens[k].text))]

\* C9: get_cleaned_sentence() is the tokens' surface forms, lowercased and with all
\* punctuation characters removed, in order and joined by one space, a form that
\* cleans to the empty string contributing nothing
C9_CleanedSentence ==
    out.op = "get_cleaned_sentence" =>
        out.value = JoinSpace(SelectSeq(CleanedForms(conllu_sentences[out.sentence].tokens),
                                        LAMBDA w : w # <<>>))

\* C10: cleaning what get_cleaned() returned gives the same string, and the getters
\* leave the tokens (surface form, position, parameters) as _process made them
C10_GetCleanedIdempotent ==
    /\ out.op = "get_cleaned_again" => out.value = out.arg
    /\ pc = "processed" => conllu_sentences = Process(text)

(***************************************************************************)
(* Claims about the CONLL-U line of a token, checked under SpecConllu.      *)
(***************************************************************************)
\* C7: with include_morphological_tags=True the line is the 10 fields position, form,
\* the given lemma, the given part of speech, '_', the given tags ('_' when there are
\* none), '0', 'root', '_', '_'
C7_ConlluLineWithTags ==
    (out.op = "get_conllu_text" /\ out.flag) =>
        out.value = << ToString(out.arg.position), out.arg.text, out.given.lemma,
                       out.given.pos, "_",
                       IF out.given.tags = "" THEN "_" ELSE out.given.tags,
                       "0", "root", "_", "_" >>

\* C8: with include_morphological_tags=False the line has the 10 fields of the line
\* with True, and its LEMMA, UPOS and FEATS are those of the token never annotated,
\* whatever parameters the token stores
C8_ConlluLineWithoutTags ==
    (out.op = "get_conllu_text" /\ ~out.flag) =>
        /\ Len(out.value) = Len(GetConlluText(out.arg, TRUE))
        /\ LET plain == GetConlluText(ConlluToken(out.arg.text), FALSE)
           IN  /\ out.value[3] = plain[3]
               /\ out.value[4] = plain[4]
               /\ out.value[6] = plain[6]

(***************************************************************************)
(* The CorpusManager of main.py, which looks for the metadata files.        *)
(***************************************************************************)
\* the name of the metadata file of id n
MetaName(n) == ToString(n) \o "_meta.json"

\* files_list = os.listdir(self.path_to_raw_txt_data)
ListDir == {FileName(f) : f \in GlobRaw} \cup {MetaName(n) : n \in meta_ids}

\* max_number = int(len(files_list)/2)
MainMaxNumber == Cardinality(ListDir) \div 2

\* main.py CorpusManager._validate_dataset: os.listdir raises on a missing path and
\* on a file; then the loop over 1..max_number; the three tests after it
MainValidateDataset ==
    IF path_kind = "missing" THEN "FileNotFoundError"
    ELSE IF path_kind # "dir" THEN "NotADirectoryError"
    ELSE IF \E n \in 1..MainMaxNumber :
                MetaName(n) \notin ListDir \/ (ToString(n) \o "_raw.txt") \notin ListDir
         THEN "InconsistentDatasetError"
    ELSE IF Cardinality(ListDir) = 0 THEN "EmptyDirectoryError"
    ELSE "none"

\* main.py CorpusManager._scan_dataset: the keys 1..max_number, Article(article_id=i)
MainScanDataset ==
    [k \in 1..MainMaxNumber |->
        [article_id |-> k, text |-> <<>>, conllu_sentences |-> <<>>, cleaned |-> 0]]

\* main_pipeline(): any platform, any path, any directory content
InitMain ==
    /\ os_sep \in {"/", "\\"}
    /\ path_kind \in {"missing", "file", "dir"}
    /\ raw_files \in [RawNames -> {"absent", "empty", "text"}]
    /\ meta_ids \in SUBSET (1..MaxId)
    /\ (path_kind # "dir" => raw_files = [f \in RawNames |-> "absent"] /\ meta_ids = {})
    /\ pc = "main_new"
    /\ error = "none"
    /\ storage = <<>>
    /\ scan_left = {}
    /\ run_i = 0
    /\ sentences = <<>>
    /\ events = <<>>
    /\ text = <<>>
    /\ conllu_sentences = <<>>
    /\ out = NoOut
    /\ TokenIdle

\* main.py CorpusManager.__init__, lines 77-79: the empty storage, _validate_dataset
MainInitValidate ==
    /\ pc = "main_new"
    /\ storage' = <<>>
    /\ error' = MainValidateDataset
    /\ pc' = IF MainValidateDataset = "none" THEN "main_scan" ELSE "raised"
    /\ UNCHANGED << os_sep, path_kind, raw_files, meta_ids, scan_left, run_i, sentences, events >>
    /\ UNCHANGED << text, conllu_sentences, out >>
    /\ UNCHANGED token_vars

\* main.py CorpusManager.__init__, line 80: _scan_dataset, then the constructor returns
MainScan ==
    /\ pc = "main_scan"
    /\ storage' = MainScanDataset
    /\ pc' = "constructed"
    /\ UNCHANGED << os_sep, path_kind, raw_files, meta_ids, error, scan_left, run_i, sentences >>
    /\ UNCHANGED << events, text, conllu_sentences, out >>
    /\ UNCHANGED token_vars

NextMain ==
    \/ MainInitValidate
    \/ MainScan

SpecMain == InitMain /\ [][NextMain]_vars

(***************************************************************************)
(* Claim about the metadata files, checked under Spec (pipeline.py); the    *)
(* same formula is violated under SpecMain (main.py).                       *)
(***************************************************************************)
\* C11: a directory whose number of *_raw.txt files differs from its number of
\* *_meta.json files is rejected with InconsistentDatasetError, and no CorpusManager
\* is constructed on it
C11_CountMismatchRejected ==
    (/\ pc \notin {"new", "main_new"}
     /\ path_kind = "dir"
     /\ GlobRaw # {}
     /\ Cardinality(GlobRaw) # Cardinality(meta_ids))
    => (error = "InconsistentDatasetError" /\ pc = "raised")

(***************************************************************************)
(* The tag converters and AdvancedMorphologicalAnalysisPipeline.  A Python  *)
(* value a converter returns is a record of its type and, for a str, its    *)
(* text.                                                                    *)
(***************************************************************************)
\* the value of a function whose body is only a docstring
PyNone == [type |-> "NoneType", value |-> ""]

\* the tags of the source tagger given to a converter, the second in no mapping
SourceTags == {"S", "UNKNOWN"}

\* MystemTagConverter.convert_morphological_tags: no statement, returns None
MystemConvertMorphologicalTags(tags) == PyNone

\* MystemTagConverter.convert_pos: no statement, returns None
MystemConvertPos(tags) == PyNone

\* OpenCorporaTagConverter.convert_pos: no statement, returns None
OpenCorporaConvertPos(tags) == PyNone

\* OpenCorporaTagConverter.convert_morphological_tags: no statement, returns None
OpenCorporaConvertMorphologicalTags(tags) == PyNone

\* converter.convert_pos(tags) on either converter
CallConvertPos ==
    /\ pc = "constructed"
    /\ \E tags \in SourceTags :
          \E v \in {MystemConvertPos(tags), OpenCorporaConvertPos(tags)} :
              out' = [NoOut EXCEPT !.op = "convert_pos", !.arg = tags, !.value = v]
    /\ UNCHANGED << pc, error, text, conllu_sentences >>
    /\ UNCHANGED corpus_vars
    /\ UNCHANGED token_vars

\* converter.convert_morphological_tags(tags) on either converter
CallConvertMorphologicalTags ==
    /\ pc = "constructed"
    /\ \E tags \in SourceTags :
          \E v \in {MystemConvertMorphologicalTags(tags),
                    OpenCorporaConvertMorphologicalTags(tags)} :
              out' = [NoOut EXCEPT !.op = "convert_morphological_tags",
                                   !.arg = tags, !.value = v]
    /\ UNCHANGED << pc, error, text, conllu_sentences >>
    /\ UNCHANGED corpus_vars
    /\ UNCHANGED token_vars

\* AdvancedMorphologicalAnalysisPipeline(corpus_manager).run(): __init__, _process and
\* run hold no statement; run() returns with nothing processed and nothing written
AdvancedRun ==
    /\ pc = "constructed"
    /\ pc' = "advanced_done"
    /\ UNCHANGED << error, text, conllu_sentences, out >>
    /\ UNCHANGED corpus_vars
    /\ UNCHANGED token_vars

NextAdvanced ==
    \/ InitValidate
    \/ ScanFile
    \/ ScanDone
    \/ CallConvertPos
    \/ CallConvertMorphologicalTags
    \/ AdvancedRun

SpecAdvanced == Init /\ [][NextAdvanced]_vars

\* the articles whose CONLL-U text run() has written
ConlluWritten == {events[k][1] : k \in {j \in 1..Len(events) : events[j][2] = "conllu"}}

\* C12: for a tag no mapping knows, convert_pos and convert_morphological_tags return
\* a string, and once the advanced run() is over every article has its CONLL-U text
\* written, with a line of 10 fields for each token
C12_UnknownTagDegrades ==
    /\ (out.op \in {"convert_pos", "convert_morphological_tags"} /\ out.arg = "UNKNOWN")
          => out.value.type = "str"
    /\ pc = "advanced_done" =>
          \A k \in 1..Len(storage) :
              /\ storage[k].article_id \in ConlluWritten
              /\ \A i \in 1..Len(storage[k].conllu_sentences) :
                    \A t \in 1..Len(storage[k].conllu_sentences[i].tokens) :
                        Len(GetConlluText(storage[k].conllu_sentences[i].tokens[t], TRUE)) = 10

(***************************************************************************)
(* Claim about the order of the steps of run(), checked under Spec.         *)
(***************************************************************************)
\* the steps of run() on one article, in the order of the loop body
RunSteps == << "process", "set", "write" >>

\* the log of a whole run() in which nothing raises: the three steps of each
\* article, the articles in the order of the storage
ExpectedEvents ==
    [j \in 1..(3 * Len(storage)) |->
        << storage[((j - 1) \div 3) + 1].article_id, RunSteps[((j - 1) % 3) + 1] >>]

\* C13: in a run() in which nothing raises, the steps are process, set, write for one
\* article after the other, and when run() returns every article has had its
\* sentences set and its cleaned text written exactly once
C13_SequentialRun ==
    (pc \in {"run", "run_set", "run_write", "run_done"} /\ Raised = {}) =>
        /\ Len(events) <= 3 * Len(storage)
        /\ \A j \in 1..Len(events) : events[j] = ExpectedEvents[j]
        /\ pc = "run_done" =>
              /\ events = ExpectedEvents
              /\ \A k \in 1..Len(storage) :
                    /\ storage[k].cleaned = 1
                    /\ storage[k].conllu_sentences = Process(storage[k].text)

C13_Witness ==
    /\ pc = "run_done"
    /\ Raised = {}
    /\ Len(storage) >= 2
    /\ Len(events) = 3 * Len(storage)

====
